---- MODULE Spec2Model ----
(***************************************************************************)
(* Model of commons.ipynb of the SpeakerRecognition repository: the        *)
(* spectrogram dimension calculator, the five feature extractors, the      *)
(* batch feature pipeline, the one-hot label encoder, the three model      *)
(* builders and evaluate_model.                                            *)
(*                                                                         *)
(* The functions are pure (apart from logging and plotting), so the state  *)
(* is the record of the last call of each function: its arguments and what *)
(* it returned, raised, printed and wrote.  Two slots are kept for         *)
(* extract_features, onehot_encode and evaluate_model so that two calls    *)
(* can be compared.                                                        *)
(***************************************************************************)
EXTENDS Integers, Sequences, FiniteSets, TLC

VARIABLES dims, featA, featB, encA, encB, model, evalA, evalB

vars == <<dims, featA, featB, encA, encB, model, evalA, evalB>>

----------------------------------------------------------------------------
(* Bounds of the model *)

\* integer arguments of calculate_spectrogram_dimensions range over -1..MaxInt
MaxInt == 3

\* a training history records 1..MaxEpochs epochs; n_of_epochs is in 0..MaxEpochs
MaxEpochs == 5

\* y_test and y_pred hold 1..MaxY labels
MaxY == 2
\* waveforms handed to extract_features have MaxLen-1 or MaxLen samples
MaxLen == 4
\* at most MaxN waveforms in one samples collection
MaxN == 2
\* n_fft of extract_features ranges over 1..MaxNfft, hop_length over 1..MaxHop
MaxNfft == 3
MaxHop == 2
\* labels are 1..MaxLabel, a label collection has at most MaxLabels entries
MaxLabel == 3
MaxLabels == 3
\* the long samples collections hold up to MaxBatch copies of one waveform
MaxBatch == 101
\* the builders are asked for 1..MaxClasses classes
MaxClasses == 4

(* Program constants *)

\* sr=16000, the default of calculate_spectrogram_dimensions and extract_features
DefaultSr == 16000
\* n_mels=128, n_chroma=128, n_mfcc=128, the defaults of extract_features
DefaultCount == 128
\* hop_length=2048, n_fft=2048, the defaults of extract_features
DefaultFft == 2048
\* "i % 50 == 0", the period of the progress log of extract_features
LogEvery == 50
\* model.layers[:175] / model.layers[175:], the split of create_resnet50_model
FreezeIndex == 175
\* len(base_model.layers) of ResNet50(include_top=False)
ResNetBaseLayers == 175
\* the smallest input width and height ResNet50(include_top=False) accepts
ResNetMinSize == 32

NotCalled == [called |-> FALSE]

----------------------------------------------------------------------------
(* Python integer arithmetic *)

\* a // b of Python ints: the floor of a/b, for either sign of b (b # 0)
PyFloorDiv(a, b) == IF b > 0 THEN a \div b ELSE (0 - a) \div (0 - b)

\* a % b of Python ints, for b > 0
PyMod(a, b) == a % b

----------------------------------------------------------------------------
(* calculate_spectrogram_dimensions *)

\* the same with ceiling division of the frame count
calculate_spectrogram_dimensions_ceil(sample_length, n_fft, hop_length, sr) ==
    IF hop_length = 0
    THEN [status |-> "error", error |-> "ZeroDivisionError"]
    ELSE [status |-> "ok",
          frequency_bins |-> PyFloorDiv(n_fft, 2) + 1,
          time_frames |-> 1 - PyFloorDiv(0 - (sr * sample_length - n_fft), hop_length)]

\* the same, but refusing a sample shorter than the FFT window
calculate_spectrogram_dimensions_validating(sample_length, n_fft, hop_length, sr) ==
    IF hop_length = 0
    THEN [status |-> "error", error |-> "ZeroDivisionError"]
    ELSE IF sr * sample_length < n_fft
    THEN [status |-> "error", error |-> "ValueError"]
    ELSE [status |-> "ok",
          frequency_bins |-> PyFloorDiv(n_fft, 2) + 1,
          time_frames |-> 1 + PyFloorDiv(sr * sample_length - n_fft, hop_length)]

\* returns (frequency_bins, time_frames); the only way it can raise is the
\* integer division by a zero hop_length
calculate_spectrogram_dimensions(sample_length, n_fft, hop_length, sr) ==
    LET total_samples == sr * sample_length
    IN  IF hop_length = 0
        THEN [status |-> "error", error |-> "ZeroDivisionError"]
        ELSE [status |-> "ok",
              frequency_bins |-> PyFloorDiv(n_fft, 2) + 1,
              time_frames |-> 1 + PyFloorDiv(total_samples - n_fft, hop_length)]

\* the argument tuples tried: a box of small integers of either sign, and the
\* two parameter sets of a one-second 16 kHz sample with a 2048-point FFT
DimInputs ==
    [sr : -1..MaxInt, sample_length : -1..MaxInt,
     n_fft : -1..MaxInt, hop_length : -1..MaxInt]
    \cup [sr : {DefaultSr}, sample_length : {1},
          n_fft : {DefaultFft}, hop_length : {512, DefaultFft}]

\* each function is called once per slot: it has no state of its own, so one
\* call from the initial state reaches every state a later call could reach
CalcDimsOn(inputs) ==
    /\ ~dims.called
    /\ \E a \in inputs :
          dims' = [called |-> TRUE, args |-> a,
                   ret |-> calculate_spectrogram_dimensions(
                              a.sample_length, a.n_fft, a.hop_length, a.sr)]
    /\ UNCHANGED <<featA, featB, encA, encB, model, evalA, evalB>>

CalcDims == CalcDimsOn(DimInputs)

----------------------------------------------------------------------------
(* The feature extractors.  A waveform is known by its identity and its    *)
(* number of samples; a feature matrix is known by the library transform   *)
(* that made it, the arguments that transform received (0 for one it did   *)
(* not receive) and its shape.                                             *)

WaveIds == {"w1", "w2"}

Waveforms == [id : WaveIds, len : {MaxLen - 1, MaxLen, DefaultSr}]

\* columns of librosa.stft(y, n_fft=n_fft, hop_length=hop_length) as the
\* extractors call it, with the library's default center=True: the signal is
\* padded by n_fft // 2 samples on either side before it is framed
StftFrames(len, n_fft, hop_length) ==
    1 + PyFloorDiv(len + 2 * PyFloorDiv(n_fft, 2) - n_fft, hop_length)

Matrix(extractor, y, sr, n_fft, hop_length, count, rows) ==
    [extractor |-> extractor, y |-> y, sr |-> sr, n_fft |-> n_fft,
     hop_length |-> hop_length, count |-> count,
     rows |-> rows, cols |-> StftFrames(y.len, n_fft, hop_length)]

\* one figure is rendered when show_plt is set
Shown(show_plt) == IF show_plt THEN 1 ELSE 0

extract_MFCCs(y, sr, n_fft, hop_length, n_mfcc, show_plt) ==
    [matrix |-> Matrix("mfcc", y, sr, n_fft, hop_length, n_mfcc, n_mfcc),
     plots |-> Shown(show_plt)]

\* the return placed inside the "if show_plt" block: nothing is returned
\* unless the figure is shown
extract_stft_spectrogram_return_in_plot(y, sr, hop_length, show_plt, n_fft) ==
    [matrix |-> IF show_plt
                THEN Matrix("stft_db", y, 0, n_fft, hop_length, 0, PyFloorDiv(n_fft, 2) + 1)
                ELSE Matrix("None", y, 0, 0, hop_length, 0, 0),
     plots |-> Shown(show_plt)]

\* librosa.stft is not given sr: the spectrogram does not depend on it
extract_stft_spectrogram(y, sr, hop_length, show_plt, n_fft) ==
    [matrix |-> Matrix("stft_db", y, 0, n_fft, hop_length, 0, PyFloorDiv(n_fft, 2) + 1),
     plots |-> Shown(show_plt)]

extract_mel_spectrogram(y, sr, hop_length, show_plt, n_fft, n_mels) ==
    [matrix |-> Matrix("mel_db", y, sr, n_fft, hop_length, n_mels, n_mels),
     plots |-> Shown(show_plt)]

\* takes no show_plt and never plots
extract_chroma_stft(y, sr, hop_length, n_fft, n_chroma) ==
    [matrix |-> Matrix("chroma_stft", y, sr, n_fft, hop_length, n_chroma, n_chroma),
     plots |-> 0]

\* takes no show_plt and never plots; the library's default of 6 bands gives 7 rows
extract_spectral_contrast(y, sr, hop_length, n_fft) ==
    [matrix |-> Matrix("spectral_contrast", y, sr, n_fft, hop_length, 0, 7),
     plots |-> 0]

----------------------------------------------------------------------------
(* extract_features *)

FeatureTags == {"Stft", "Mel", "MFCC", "ChromaStft", "SpectralContrast"}

\* the if/elif chain of the loop body: the value assigned to spect, as a
\* one-element sequence, or <<>> when no branch matches and spect is not assigned
dispatch(a, data) ==
    IF a.feature = "Stft"
    THEN <<extract_stft_spectrogram(data, a.sr, a.hop_length, a.show_plt, a.n_fft)>>
    ELSE IF a.feature = "Mel"
    THEN <<extract_mel_spectrogram(data, a.sr, a.hop_length, a.show_plt, a.n_fft, a.n_mels)>>
    ELSE IF a.feature = "MFCC"
    THEN <<extract_MFCCs(data, a.sr, a.n_fft, a.hop_length, a.n_mfcc, a.show_plt)>>
    ELSE IF a.feature = "ChromaStft"
    THEN <<extract_chroma_stft(data, a.sr, a.hop_length, a.n_fft, a.n_chroma)>>
    ELSE IF a.feature = "SpectralContrast"
    THEN <<extract_spectral_contrast(data, a.sr, a.hop_length, a.n_fft)>>
    ELSE <<>>

\* the progress line keyed on the number of items done, i + 1, instead of i
progress_log_by_count(a, i) ==
    IF a.show_logs /\ PyMod(i + 1, LogEvery) = 0
    THEN <<[line |-> "Extracted", i |-> i, of |-> Len(a.samples)]>>
    ELSE <<>>

\* the progress line of iteration i (i counts from 0), logged after the
\* i-th result is appended
progress_log(a, i) ==
    IF a.show_logs /\ PyMod(i, LogEvery) = 0
    THEN <<[line |-> "Extracted", i |-> i, of |-> Len(a.samples)]>>
    ELSE <<>>

\* features.insert(0, spect)
append_front(features, spect) == <<spect>> \o features

\* features.append(spect)
append(features, spect) == Append(features, spect)

\* one iteration of "for i, data in enumerate(samples)" (i counts from 0); st
\* holds the locals: spect (<<>> while unbound), features, and the log lines
\* and figures produced so far.  Reading the unbound spect raises
\* UnboundLocalError, and no later iteration runs.
loop_body(a, i, st) ==
    IF st.status = "error" THEN st
    ELSE LET data == a.samples[i + 1]
             assigned == dispatch(a, data)
             spect == IF assigned # <<>> THEN <<assigned[1].matrix>> ELSE st.spect
             plots == IF assigned # <<>> THEN st.plots + assigned[1].plots ELSE st.plots
         IN  IF spect = <<>>
             THEN [st EXCEPT !.status = "error", !.plots = plots]
             ELSE [status |-> "ok", spect |-> spect,
                   features |-> append(st.features, spect[1]),
                   logs |-> st.logs \o progress_log(a, i),
                   plots |-> plots]

RECURSIVE extract_loop(_, _, _, _)
\* the iterations lo, lo+1, ..., hi-1 of the loop, in that order, from the
\* locals st (the range is halved only to keep the evaluation shallow)
extract_loop(a, lo, hi, st) ==
    IF lo >= hi THEN st
    ELSE IF hi = lo + 1 THEN loop_body(a, lo, st)
    ELSE LET mid == (lo + hi) \div 2
             first == extract_loop(a, lo, mid, st)
         IN  IF first.status = "error" THEN first
             ELSE extract_loop(a, mid, hi, first)

\* np.array(features): the shape of the stacked array, or <<>> when the
\* matrices differ in shape and cannot be stacked (ValueError)
stack_shape(features) ==
    IF features = <<>> THEN <<0>>
    ELSE IF \A k \in 1..Len(features) :
               /\ features[k].rows = features[1].rows
               /\ features[k].cols = features[1].cols
    THEN <<Len(features), features[1].rows, features[1].cols>>
    ELSE <<-1>>

\* the lines logged after the loop
summary_logs(a, shape) ==
    IF a.show_logs
    THEN <<[line |-> "Extracted features from", of |-> Len(a.samples)],
           [line |-> "Features shape", shape |-> shape]>>
    ELSE <<>>

\* a is the record of the arguments.  Returns the stacked array, or raises;
\* samples is the content of the caller's collection when the call ends.
extract_features(a) ==
    LET st == extract_loop(a, 0, Len(a.samples),
                           [status |-> "ok", spect |-> <<>>, features |-> <<>>,
                            logs |-> <<>>, plots |-> 0])
        shape == stack_shape(st.features)
    IN  IF st.status = "error"
        THEN [status |-> "error", error |-> "UnboundLocalError",
              logs |-> st.logs, plots |-> st.plots, samples |-> a.samples]
        ELSE IF shape = <<-1>>
        THEN [status |-> "error", error |-> "ValueError",
              logs |-> st.logs, plots |-> st.plots, samples |-> a.samples]
        ELSE [status |-> "ok", features |-> st.features, shape |-> shape,
              logs |-> st.logs \o summary_logs(a, shape),
              plots |-> st.plots, samples |-> a.samples]

\* the samples collections tried
SampleSeqs == UNION {[1..n -> Waveforms] : n \in 0..MaxN}

\* the (n_fft, hop_length) pairs tried: small ones, and the 2048-point FFT
\* with a hop of 512 or 2048
FftParams ==
    ((1..MaxNfft) \X (1..MaxHop)) \cup ({DefaultFft} \X {512, DefaultFft})

\* the (n_mels, n_chroma, n_mfcc) triples tried: the defaults and the
\* conventional counts
Counts == {<<DefaultCount, DefaultCount, DefaultCount>>, <<40, 12, 13>>}

FeatArgs(s, f, r, p, c, l, g) ==
    [samples |-> s, feature |-> f, sr |-> r, hop_length |-> p[2], n_fft |-> p[1],
     n_mels |-> c[1], n_chroma |-> c[2], n_mfcc |-> c[3],
     show_logs |-> l, show_plt |-> g]

\* a call of extract_features with a samples collection of seqs and an
\* (n_fft, hop_length) pair of params: the five tags and a misspelt one, two
\* sample rates, both count triples, every setting of the switches; every
\* waveform is at least one FFT window long
ExtractFeaturesOn(seqs, params) ==
    /\ ~featA.called
    /\ \E s \in seqs, p \in params, f \in FeatureTags \cup {"mel"},
          r \in {DefaultSr, 22050}, c \in Counts, l \in BOOLEAN, g \in BOOLEAN :
          /\ \A k \in 1..Len(s) : s[k].len >= p[1]
          /\ featA' = [called |-> TRUE, args |-> FeatArgs(s, f, r, p, c, l, g),
                       ret |-> extract_features(FeatArgs(s, f, r, p, c, l, g))]
    /\ UNCHANGED <<dims, featB, encA, encB, model, evalA, evalB>>

ExtractFeatures == ExtractFeaturesOn(SampleSeqs, FftParams)

\* extract_features on waveforms of the length, FFT size and hop the dimension
\* calculator was asked about
ExtractSized ==
    /\ dims.called
    /\ ExtractFeaturesOn(
          {s \in SampleSeqs :
              \A k \in 1..Len(s) : s[k].len = dims.args.sr * dims.args.sample_length},
          {<<dims.args.n_fft, dims.args.hop_length>>} \cap FftParams)

\* the long samples collections: 0..MaxBatch copies of a one-second waveform
LongSeqs ==
    {[k \in 1..n |-> [id |-> "w1", len |-> DefaultSr]] : n \in 0..MaxBatch}

\* extract_features on a long collection, with the default FFT size and hop
ExtractLong == ExtractFeaturesOn(LongSeqs, {<<DefaultFft, DefaultFft>>})

\* the same call again, with the logging and plotting switches set anew
ExtractFeaturesAgain ==
    /\ featA.called
    /\ ~featB.called
    /\ \E logs \in BOOLEAN, plt \in BOOLEAN :
          LET a == [featA.args EXCEPT !.show_logs = logs, !.show_plt = plt]
          IN  featB' = [called |-> TRUE, args |-> a, ret |-> extract_features(a)]
    /\ UNCHANGED <<dims, featA, encA, encB, model, evalA, evalB>>

----------------------------------------------------------------------------
(* onehot_encode *)

Labels == 1..MaxLabel

\* the label collections tried: every sequence of at most MaxLabels labels
LabelSeqs == UNION {[1..n -> Labels] : n \in 0..MaxLabels}

\* the distinct values of a label collection
DistinctLabels(labels) == {labels[i] : i \in 1..Len(labels)}

RECURSIVE SortAscending(_)
\* the elements of a set of labels in ascending order
SortAscending(S) ==
    IF S = {} THEN <<>>
    ELSE LET m == CHOOSE x \in S : \A y \in S : x <= y
         IN  <<m>> \o SortAscending(S \ {m})

RECURSIVE FirstSeen(_, _)
\* the distinct labels in order of first appearance
FirstSeen(labels, seen) ==
    IF labels = <<>> THEN <<>>
    ELSE IF Head(labels) \in seen THEN FirstSeen(Tail(labels), seen)
    ELSE <<Head(labels)>> \o FirstSeen(Tail(labels), seen \cup {Head(labels)})

\* categories in order of first appearance instead of sorted
categories_unsorted(labels) == FirstSeen(labels, {})

\* one category per input row, duplicates kept
categories_duplicated(labels) == labels

\* encoder.categories_[0] after fit: the sorted distinct values of the column
categories(labels) == SortAscending(DistinctLabels(labels))

\* encoder.transform(labels).astype(float).toarray(): row i has a 1 in the
\* column of the category equal to labels[i]; columns are numbered from 0
transform(labels, cats) ==
    [i \in 1..Len(labels) |->
        [j \in 0..(Len(cats) - 1) |-> IF cats[j + 1] = labels[i] THEN 1 ELSE 0]]

\* the enumeration started at 1 and wrapped, so every label is shifted one column
make_mapping_shifted(cats) ==
    [j \in 0..(Len(cats) - 1) |-> cats[((j + 1) % Len(cats)) + 1]]

\* {col_idx: class_label for col_idx, class_label in enumerate(original_classes)}
make_mapping(cats) == [j \in 0..(Len(cats) - 1) |-> cats[j + 1]]

\* returns (labels_onehot, mapping); fitting the encoder on an empty column
\* raises ValueError
onehot_encode(labels) ==
    IF Len(labels) = 0
    THEN [status |-> "error", error |-> "ValueError"]
    ELSE LET original_classes == categories(labels)
         IN  [status |-> "ok",
              labels_onehot |-> transform(labels, original_classes),
              mapping |-> make_mapping(original_classes)]

EncodeA ==
    /\ ~encA.called
    /\ \E labels \in LabelSeqs :
          encA' = [called |-> TRUE, labels |-> labels, ret |-> onehot_encode(labels)]
    /\ UNCHANGED <<dims, featA, featB, encB, model, evalA, evalB>>

EncodeB ==
    /\ ~encB.called
    /\ \E labels \in LabelSeqs :
          encB' = [called |-> TRUE, labels |-> labels, ret |-> onehot_encode(labels)]
    /\ UNCHANGED <<dims, featA, featB, encA, model, evalA, evalB>>

----------------------------------------------------------------------------
(* The model builders.  A model is its sequence of layers; a layer is its  *)
(* type, its filters or units, its built-in activation ("none" without     *)
(* one), the slope alpha of a leaky ReLU in thousandths, its strides, its  *)
(* dropout rate in percent, its L2 kernel regularizer in hundredths (0     *)
(* without one) and its trainable flag.                                    *)

Layer(type, units, activation, alpha, strides, rate, l2) ==
    [type |-> type, units |-> units, activation |-> activation, alpha |-> alpha,
     strides |-> strides, rate |-> rate, l2 |-> l2, trainable |-> TRUE]

Conv2D(filters, strides, alpha, l2) ==
    Layer("Conv2D", filters, "leaky_relu", alpha, strides, 0, l2)

Dense(units, activation, alpha, l2) == Layer("Dense", units, activation, alpha, 1, 0, l2)

Dropout(rate) == Layer("Dropout", 0, "none", 0, 1, rate, 0)

BatchNormalization == Layer("BatchNormalization", 0, "none", 0, 1, 0, 0)

Flatten == Layer("Flatten", 0, "none", 0, 1, 0, 0)

LeakyReLU(alpha) == Layer("LeakyReLU", 0, "leaky_relu", alpha, 1, 0, 0)

GlobalAveragePooling2D == Layer("GlobalAveragePooling2D", 0, "none", 0, 1, 0, 0)

\* a convolution block of the base model with its BatchNormalization line
\* not commented out
BaseConvBlock_with_bn(filters, strides) ==
    <<Conv2D(filters, strides, 10, 0), BatchNormalization, Dropout(25)>>

\* a convolution block of the base model: LeakyReLU(alpha=0.01) convolution,
\* then Dropout(0.25)
BaseConvBlock(filters, strides) == <<Conv2D(filters, strides, 10, 0), Dropout(25)>>

\* a dense block of the base model: the activation is built into the Dense
\* layer, BatchNormalization and Dropout(0.25) follow
BaseDenseBlock(units) ==
    <<Dense(units, "leaky_relu", 10, 0), BatchNormalization, Dropout(25)>>

create_base_cnn_model(feature_width, feature_height, channels, classes) ==
    [status |-> "ok",
     input_shape |-> <<feature_width, feature_height, channels>>,
     layers |-> BaseConvBlock(64, 1) \o BaseConvBlock(128, 4)
                \o BaseConvBlock(128, 1) \o BaseConvBlock(64, 4)
                \o <<Flatten>>
                \o BaseDenseBlock(512) \o BaseDenseBlock(256)
                \o <<Dense(classes, "softmax", 0, 0)>>,
     printed |-> "[INFO] Using My CNN model."]

\* two L2-regularized LeakyReLU(alpha=0.1) convolutions, the second strided,
\* then Dropout
BetterConvBlock(rate) == <<Conv2D(64, 1, 100, 1), Conv2D(64, 4, 100, 1), Dropout(rate)>>

\* the dense block with the activation ahead of the normalization
BetterDenseBlock_activate_first(units) ==
    <<Dense(units, "none", 0, 1), LeakyReLU(100), BatchNormalization, Dropout(30)>>

\* the dense block with the kernel_regularizer left out
BetterDenseBlock_no_l2(units) ==
    <<Dense(units, "none", 0, 0), BatchNormalization, LeakyReLU(100), Dropout(30)>>

\* an L2-regularized Dense layer without activation, BatchNormalization,
\* LeakyReLU(alpha=0.1), Dropout(0.3)
BetterDenseBlock(units) ==
    <<Dense(units, "none", 0, 1), BatchNormalization, LeakyReLU(100), Dropout(30)>>

create_better_base_cnn_model(feature_width, feature_height, channels, classes) ==
    [status |-> "ok",
     input_shape |-> <<feature_width, feature_height, channels>>,
     layers |-> BetterConvBlock(30) \o BetterConvBlock(40)
                \o <<Flatten>>
                \o BetterDenseBlock(512) \o BetterDenseBlock(256)
                \o <<Dense(classes, "softmax", 0, 0)>>,
     printed |-> "[INFO] Using My Better CNN model."]

\* base_model.layers as tf.keras.applications.ResNet50 returns it: every
\* layer trainable
ResNet50Layers ==
    [k \in 1..ResNetBaseLayers |-> Layer("ResNet50", k, "none", 0, 1, 0, 0)]

\* "for layer in layers[lo:hi]: layer.trainable = value", a Python slice of
\* the 0-based positions lo..hi-1, clipped to the list
set_trainable(layers, lo, hi, value) ==
    [k \in 1..Len(layers) |->
        IF lo <= k - 1 /\ k - 1 < hi
        THEN [layers[k] EXCEPT !.trainable = value]
        ELSE layers[k]]

\* the layers appended on top of the base model
ResNetHead(classes) ==
    <<GlobalAveragePooling2D,
      Dense(1024, "relu", 0, 0), BatchNormalization, Dropout(30),
      Dense(512, "relu", 0, 0), BatchNormalization, Dropout(40),
      Dense(classes, "softmax", 0, 0)>>

\* the split made five layers early
fine_tune_split_early(layers) ==
    set_trainable(set_trainable(layers, 0, FreezeIndex - 5, FALSE),
                  FreezeIndex - 5, Len(layers), TRUE)

\* model.layers[:175] frozen, then model.layers[175:] made trainable
fine_tune_split(layers) ==
    set_trainable(set_trainable(layers, 0, FreezeIndex, FALSE),
                  FreezeIndex, Len(layers), TRUE)

\* ResNet50 refuses an input narrower or lower than 32 (ValueError)
create_resnet50_model(feature_width, feature_height, classes) ==
    IF feature_width < ResNetMinSize \/ feature_height < ResNetMinSize
    THEN [status |-> "error", error |-> "ValueError"]
    ELSE LET base_layers == set_trainable(ResNet50Layers, 0, ResNetBaseLayers, FALSE)
         IN  [status |-> "ok",
              input_shape |-> <<feature_width, feature_height, 3>>,
              base_count |-> Len(base_layers),
              layers |-> fine_tune_split(base_layers \o ResNetHead(classes)),
              printed |-> "[INFO] Resnet50 customized"]

\* the feature widths and heights, channel counts and class counts tried
FeatureSizes == {16, 32, 128}

ChannelCounts == {1, 3}

ClassCounts == 1..MaxClasses

BuildBase ==
    /\ ~model.called
    /\ \E w \in FeatureSizes, h \in FeatureSizes, c \in ChannelCounts, n \in ClassCounts :
          model' = [called |-> TRUE, builder |-> "create_base_cnn_model",
                    args |-> [feature_width |-> w, feature_height |-> h,
                              channels |-> c, classes |-> n],
                    ret |-> create_base_cnn_model(w, h, c, n)]
    /\ UNCHANGED <<dims, featA, featB, encA, encB, evalA, evalB>>

BuildBetter ==
    /\ ~model.called
    /\ \E w \in FeatureSizes, h \in FeatureSizes, c \in ChannelCounts, n \in ClassCounts :
          model' = [called |-> TRUE, builder |-> "create_better_base_cnn_model",
                    args |-> [feature_width |-> w, feature_height |-> h,
                              channels |-> c, classes |-> n],
                    ret |-> create_better_base_cnn_model(w, h, c, n)]
    /\ UNCHANGED <<dims, featA, featB, encA, encB, evalA, evalB>>

BuildResnet50 ==
    /\ ~model.called
    /\ \E w \in FeatureSizes, h \in FeatureSizes, n \in ClassCounts :
          model' = [called |-> TRUE, builder |-> "create_resnet50_model",
                    args |-> [feature_width |-> w, feature_height |-> h,
                              classes |-> n],
                    ret |-> create_resnet50_model(w, h, n)]
    /\ UNCHANGED <<dims, featA, featB, encA, encB, evalA, evalB>>

----------------------------------------------------------------------------
(* evaluate_model *)

\* make_interp_spline(x, y) fits a cubic spline (k = 3), which needs k + 1
\* data points; with fewer it raises ValueError
MinSplinePoints == 4

Digit == <<"0", "1", "2", "3", "4", "5", "6", "7", "8", "9">>

RECURSIVE ToStr(_)
\* str(n) of a natural number
ToStr(n) == IF n < 10 THEN Digit[n + 1] ELSE ToStr(n \div 10) \o Digit[(n % 10) + 1]

RECURSIVE FixedDigits(_, _)
\* the last `width` decimal digits of n, zero padded
FixedDigits(n, width) ==
    IF width = 0 THEN "" ELSE FixedDigits(n \div 10, width - 1) \o Digit[(n % 10) + 1]

RECURSIVE Pow10(_)
Pow10(k) == IF k = 0 THEN 1 ELSE 10 * Pow10(k - 1)

\* num/den (den > 0) rounded to the nearest integer, ties to even
RoundHalfEven(num, den) ==
    LET q == PyFloorDiv(num, den)
        r == num - q * den
    IN  IF 2 * r > den \/ (2 * r = den /\ q % 2 = 1) THEN q + 1 ELSE q

\* f"{num/den:.{places}f}"; 0/0 is nan
FormatFixed(num, den, places) ==
    IF den = 0 THEN "nan"
    ELSE LET v == RoundHalfEven(num * Pow10(places), den)
             a == IF v < 0 THEN 0 - v ELSE v
         IN  (IF num < 0 THEN "-" ELSE "")
                 \o ToStr(a \div Pow10(places)) \o "." \o FixedDigits(a, places)

RECURSIVE Sum(_, _)
\* the sum of f[k] over the labels k of a set
Sum(f, S) ==
    IF S = {} THEN 0
    ELSE LET k == CHOOSE x \in S : TRUE IN f[k] + Sum(f, S \ {k})

RECURSIVE Join(_, _)
\* sep.join(parts)
Join(parts, sep) ==
    IF parts = <<>> THEN ""
    ELSE IF Len(parts) = 1 THEN parts[1]
    ELSE parts[1] \o sep \o Join(Tail(parts), sep)

\* the labels of y_test and y_pred together
unique_labels(y_test, y_pred) == DistinctLabels(y_test) \cup DistinctLabels(y_pred)

\* sklearn's confusion_matrix: entry [t][p] counts the samples of true label
\* t predicted as p
confusion_matrix(y_test, y_pred) ==
    LET labels == unique_labels(y_test, y_pred)
    IN  [t \in labels |-> [p \in labels |->
            Cardinality({i \in 1..Len(y_test) : y_test[i] = t /\ y_pred[i] = p})]]

\* str() of the matrix, numpy style (counts of one digit)
MatrixText(cm) ==
    LET order == SortAscending(DOMAIN cm)
        Row(t) == "[" \o Join([k \in 1..Len(order) |-> ToStr(cm[t][order[k]])], " ") \o "]"
    IN  "[" \o Join([k \in 1..Len(order) |-> Row(order[k])], "\n ") \o "]"

\* the number of samples predicted right, over the number of samples
accuracy_score(y_test, y_pred) ==
    <<Cardinality({i \in 1..Len(y_test) : y_test[i] = y_pred[i]}), Len(y_test)>>

\* sklearn's cohen_kappa_score as a fraction: 1 - observed disagreement over
\* expected disagreement; 0/0 (one label only) is nan
cohen_kappa_score(y_test, y_pred) ==
    LET cm == confusion_matrix(y_test, y_pred)
        labels == DOMAIN cm
        n == Len(y_test)
        agree == Sum([k \in labels |-> cm[k][k]], labels)
        expected == Sum([k \in labels |-> Sum(cm[k], labels) *
                                         Sum([t \in labels |-> cm[t][k]], labels)], labels)
    IN  <<n * agree - expected, n * n - expected>>

\* the per-label rows of classification_report(zero_division=1): label,
\* precision, recall and support (the f1 and average columns are left out)
classification_report(y_test, y_pred) ==
    LET cm == confusion_matrix(y_test, y_pred)
        labels == DOMAIN cm
        order == SortAscending(labels)
        Ratio(tp, all) == IF all = 0 THEN "1.00" ELSE FormatFixed(tp, all, 2)
        Row(k) == ToStr(k) \o " "
                    \o Ratio(cm[k][k], Sum([t \in labels |-> cm[t][k]], labels)) \o " "
                    \o Ratio(cm[k][k], Sum(cm[k], labels)) \o " "
                    \o ToStr(Sum(cm[k], labels))
    IN  Join([i \in 1..Len(order) |-> Row(order[i])], "\n")

\* what a call does that can be observed, in order
Printed(what, text) == [kind |-> "print", what |-> what, text |-> text]

Figure(what) == [kind |-> "subplots", what |-> what, text |-> ""]

Plotted(label) == [kind |-> "plot", what |-> "curves", text |-> label]

Saved(name) == [kind |-> "savefig", what |-> "curves", text |-> name]

FigureShown == [kind |-> "show", what |-> "curves", text |-> ""]

\* H is None
None == [none |-> TRUE]

\* the History object fit returns after `epochs` epochs; the val_ keys are
\* there when validation data was given
History(epochs, validated) == [none |-> FALSE, epochs |-> epochs, validated |-> validated]

\* the keys of H.history plotted, in order, with the labels of their curves
CurveKeys == <<"loss", "val_loss", "accuracy", "val_accuracy">>

CurveLabels == <<"train_loss", "val_loss", "train_acc", "val_acc">>

ArrayShape(y) == "(" \o ToStr(Len(y)) \o ",)"

\* one ax.plot(...) of H.history[key][:n_of_epochs] against epochs_x:
\* KeyError without the key, ValueError when the slice is shorter than
\* epochs_x or when the spline has too few points
plot_curve(H, key, n_of_epochs, interpolate) ==
    IF key \in {"val_loss", "val_accuracy"} /\ ~H.validated THEN "KeyError"
    ELSE LET y == IF H.epochs < n_of_epochs THEN H.epochs ELSE n_of_epochs
         IN  IF y # n_of_epochs THEN "ValueError"
             ELSE IF interpolate /\ n_of_epochs < MinSplinePoints THEN "ValueError"
             ELSE "ok"

RECURSIVE plot_curves(_, _, _, _, _)
\* the four curves from the k-th on, stopping at the first that raises
plot_curves(H, n_of_epochs, interpolate, k, st) ==
    IF k > Len(CurveKeys) THEN st
    ELSE LET status == plot_curve(H, CurveKeys[k], n_of_epochs, interpolate)
         IN  IF status # "ok" THEN [st EXCEPT !.status = status]
             ELSE plot_curves(H, n_of_epochs, interpolate, k + 1,
                              [st EXCEPT !.out = st.out \o <<Plotted(CurveLabels[k])>>])

evaluate_model(H, y_pred, y_test, n_of_epochs, show_confusion_matrix, interpolate, plot_file_name) ==
    LET acc == accuracy_score(y_test, y_pred)
        kappa == cohen_kappa_score(y_test, y_pred)
        metrics ==
            <<Printed("info", "[INFO] Evaluating model..."),
              Printed("shape", "Type and shape of y_test: <class 'numpy.ndarray'> | "
                                   \o ArrayShape(y_test)),
              Printed("shape", "Type and shape of y_pred: <class 'numpy.ndarray'> | "
                                   \o ArrayShape(y_pred)),
              Printed("confusion_matrix", "\nConfusion matrix:"),
              Printed("confusion_matrix", MatrixText(confusion_matrix(y_test, y_pred)))>>
            \o (IF show_confusion_matrix THEN <<Figure("confusion_matrix")>> ELSE <<>>)
            \o <<Printed("classification_report", classification_report(y_test, y_pred)),
                 Printed("kappa", "Cohen's Kappa: "
                                    \o FormatFixed(kappa[1] * 100, kappa[2], 1) \o "%"),
                 Printed("accuracy", "Accuracy: "
                                    \o FormatFixed(acc[1] * 100, acc[2], 1) \o "%")>>
        finished == <<Printed("info", "[INFO] Finished model evaluation")>>
    IN  IF H.none
        THEN [status |-> "ok", out |-> metrics \o finished, files |-> {}]
        ELSE IF n_of_epochs <= 0
        THEN \* epochs_x is empty and epochs_x.min() raises
             [status |-> "ValueError", out |-> metrics, files |-> {}]
        ELSE LET drawn == plot_curves(H, n_of_epochs, interpolate, 1,
                              [status |-> "ok", out |-> metrics \o <<Figure("curves")>>])
                 name == plot_file_name \o "-"
                             \o FormatFixed(acc[1] * 100, acc[2], 1) \o "acc.png"
             IN  IF drawn.status # "ok"
                 THEN [status |-> drawn.status, out |-> drawn.out, files |-> {}]
                 ELSE [status |-> "ok",
                       out |-> drawn.out
                           \o <<Printed("saving",
                                    "[INFO] Saving training/validation plot as a "
                                        \o plot_file_name \o "-"
                                        \o FormatFixed(acc[1] * 100, acc[2], 2) \o "acc.png"),
                                Saved(name), FigureShown>>
                           \o finished,
                       files |-> {name}]

YLabels == {0, 1}

Histories == {None} \cup {History(k, v) : k \in 1..MaxEpochs, v \in BOOLEAN}

PlotFileNames == {"plot.png", "run1"}

\* a call of evaluate_model
Evaluate ==
    /\ ~evalA.called
    /\ \E H \in Histories, n_of_epochs \in 0..MaxEpochs,
          show_confusion_matrix \in BOOLEAN, interpolate \in BOOLEAN,
          plot_file_name \in PlotFileNames, n \in 1..MaxY :
          \E y_test \in [1..n -> YLabels], y_pred \in [1..n -> YLabels] :
              evalA' = [called |-> TRUE,
                        args |-> [H |-> H, y_pred |-> y_pred, y_test |-> y_test,
                                  n_of_epochs |-> n_of_epochs,
                                  show_confusion_matrix |-> show_confusion_matrix,
                                  interpolate |-> interpolate,
                                  plot_file_name |-> plot_file_name],
                        ret |-> evaluate_model(H, y_pred, y_test, n_of_epochs,
                                               show_confusion_matrix, interpolate,
                                               plot_file_name)]
    /\ UNCHANGED <<dims, featA, featB, encA, encB, model, evalB>>

\* the same call again with H = None
EvaluateWithoutHistory ==
    /\ evalA.called
    /\ ~evalA.args.H.none
    /\ ~evalB.called
    /\ LET a == [evalA.args EXCEPT !.H = None]
       IN  evalB' = [called |-> TRUE, args |-> a,
                     ret |-> evaluate_model(a.H, a.y_pred, a.y_test, a.n_of_epochs,
                                            a.show_confusion_matrix, a.interpolate,
                                            a.plot_file_name)]
    /\ UNCHANGED <<dims, featA, featB, encA, encB, model, evalA>>

----------------------------------------------------------------------------
Init ==
    /\ dims = NotCalled
    /\ featA = NotCalled
    /\ featB = NotCalled
    /\ encA = NotCalled
    /\ encB = NotCalled
    /\ model = NotCalled
    /\ evalA = NotCalled
    /\ evalB = NotCalled

NextDims == CalcDims

SpecDims == Init /\ [][NextDims]_vars

NextFeat == ExtractFeatures \/ ExtractFeaturesAgain

SpecFeat == Init /\ [][NextFeat]_vars

NextShape == CalcDims \/ ExtractSized

SpecShape == Init /\ [][NextShape]_vars

NextLog == ExtractLong

SpecLog == Init /\ [][NextLog]_vars

NextModel == BuildBase \/ BuildBetter \/ BuildResnet50

SpecModel == Init /\ [][NextModel]_vars

NextEval == Evaluate \/ EvaluateWithoutHistory

SpecEval == Init /\ [][NextEval]_vars

NextEnc == EncodeA \/ EncodeB

SpecEnc == Init /\ [][NextEnc]_vars

Next ==
    \/ CalcDims
    \/ ExtractFeatures
    \/ ExtractFeaturesAgain
    \/ EncodeA
    \/ EncodeB
    \/ BuildBase
    \/ BuildBetter
    \/ BuildResnet50
    \/ Evaluate
    \/ EvaluateWithoutHistory

Spec == Init /\ [][Next]_vars

----------------------------------------------------------------------------
(* Claims *)

DimsTotal == dims.args.sr * dims.args.sample_length

\* C1: for integer inputs with hop_length > 0 and sr*sample_length >= n_fft,
\* calculate_spectrogram_dimensions returns (n_fft // 2 + 1,
\* 1 + (sr*sample_length - n_fft) // hop_length) with floor division, that is
\* frequency_bins - 1 is the largest integer with 2*(frequency_bins - 1) <= n_fft
\* and time_frames - 1 is the largest integer q with
\* q*hop_length <= sr*sample_length - n_fft; and (16000, 1, 2048, 512) gives
\* (1025, 28).
C1_DimsClosedForm ==
    (dims.called /\ dims.args.hop_length > 0 /\ DimsTotal >= dims.args.n_fft) =>
        /\ dims.ret.status = "ok"
        /\ 2 * (dims.ret.frequency_bins - 1) <= dims.args.n_fft
        /\ dims.args.n_fft < 2 * dims.ret.frequency_bins
        /\ (dims.ret.time_frames - 1) * dims.args.hop_length
              <= DimsTotal - dims.args.n_fft
        /\ DimsTotal - dims.args.n_fft
              < dims.ret.time_frames * dims.args.hop_length
        /\ (dims.args = [sr |-> 16000, sample_length |-> 1,
                         n_fft |-> 2048, hop_length |-> 512]
              => dims.ret.frequency_bins = 1025 /\ dims.ret.time_frames = 28)

C1_Witness ==
    /\ dims.called
    /\ dims.args = [sr |-> 16000, sample_length |-> 1, n_fft |-> 2048, hop_length |-> 512]
    /\ dims.ret.status = "ok"
    /\ dims.ret.time_frames = 28

\* C2: every call of extract_features with a tag that is none of the five
\* ends in an error and returns no array, whatever the samples collection,
\* the empty one included.
C2_UnknownTagRaises ==
    (featA.called /\ featA.args.feature \notin FeatureTags) =>
        featA.ret.status = "error"

EqualLength(samples) ==
    \A k \in 1..Len(samples) : samples[k].len = samples[1].len

\* C3: for N equal-length waveforms and each of the five tags,
\* extract_features returns an array whose first dimension is N and whose
\* i-th entry is what the extractor of that tag returns for the i-th waveform
\* with the shared sr, n_fft, hop_length and the count of that tag.
C3_BatchInOrder ==
    (featA.called /\ featA.args.feature \in FeatureTags
        /\ EqualLength(featA.args.samples)) =>
        LET a == featA.args
            r == featA.ret
        IN  /\ r.status = "ok"
            /\ r.shape[1] = Len(a.samples)
            /\ Len(r.features) = Len(a.samples)
            /\ \A i \in 1..Len(a.samples) :
                  /\ a.feature = "Stft" => r.features[i] =
                        extract_stft_spectrogram(a.samples[i], a.sr, a.hop_length,
                                                 FALSE, a.n_fft).matrix
                  /\ a.feature = "Mel" => r.features[i] =
                        extract_mel_spectrogram(a.samples[i], a.sr, a.hop_length,
                                                FALSE, a.n_fft, a.n_mels).matrix
                  /\ a.feature = "MFCC" => r.features[i] =
                        extract_MFCCs(a.samples[i], a.sr, a.n_fft, a.hop_length,
                                      a.n_mfcc, FALSE).matrix
                  /\ a.feature = "ChromaStft" => r.features[i] =
                        extract_chroma_stft(a.samples[i], a.sr, a.hop_length,
                                            a.n_fft, a.n_chroma).matrix
                  /\ a.feature = "SpectralContrast" => r.features[i] =
                        extract_spectral_contrast(a.samples[i], a.sr, a.hop_length,
                                                  a.n_fft).matrix

C3_Witness ==
    /\ featA.called
    /\ featA.args.feature = "MFCC"
    /\ featA.args.n_mfcc = 13
    /\ Len(featA.args.samples) = 2
    /\ EqualLength(featA.args.samples)
    /\ featA.args.samples[1] # featA.args.samples[2]
    /\ featA.ret.status = "ok"
    /\ featA.ret.shape[1] = 2

\* the number of columns of row holding v
CountIn(row, v) == Cardinality({j \in DOMAIN row : row[j] = v})

\* C4: for N >= 1 labels, onehot_encode returns a matrix of N rows and K
\* columns, K the number of distinct input values, every row holding exactly
\* one 1 and K-1 zeros, and a mapping of exactly K entries.
C4_OneHotShape ==
    (encA.called /\ Len(encA.labels) >= 1) =>
        LET K == Cardinality(DistinctLabels(encA.labels))
            m == encA.ret.labels_onehot
        IN  /\ encA.ret.status = "ok"
            /\ DOMAIN m = 1..Len(encA.labels)
            /\ \A i \in DOMAIN m :
                  /\ DOMAIN m[i] = 0..(K - 1)
                  /\ CountIn(m[i], 1) = 1
                  /\ CountIn(m[i], 0) = K - 1
            /\ Cardinality(DOMAIN encA.ret.mapping) = K

C4_Witness ==
    /\ encA.called
    /\ Len(encA.labels) = 3
    /\ Cardinality(DistinctLabels(encA.labels)) = 2
    /\ encA.ret.status = "ok"
    /\ DOMAIN encA.ret.labels_onehot[1] = 0..1

\* C5: decoding each row of the matrix through the returned mapping (the
\* label mapped to the column that holds the 1) gives back the input label
\* sequence, repetitions and order included.
C5_RoundTrip ==
    (encA.called /\ encA.ret.status = "ok") =>
        /\ Len(encA.ret.labels_onehot) = Len(encA.labels)
        /\ \A i \in 1..Len(encA.labels) :
              \A j \in DOMAIN encA.ret.labels_onehot[i] :
                  encA.ret.labels_onehot[i][j] = 1
                      => /\ j \in DOMAIN encA.ret.mapping
                         /\ encA.ret.mapping[j] = encA.labels[i]
        /\ \A i \in 1..Len(encA.labels) :
              \E j \in DOMAIN encA.ret.labels_onehot[i] :
                  encA.ret.labels_onehot[i][j] = 1

C5_Witness ==
    /\ encA.called
    /\ encA.labels = <<2, 1, 2>>
    /\ encA.ret.status = "ok"
    /\ encA.ret.labels_onehot[1][1] = 1
    /\ encA.ret.mapping[1] = 2

\* the column a mapping gives a label
ColumnOf(mapping, label) == CHOOSE j \in DOMAIN mapping : mapping[j] = label

BothEncoded == encA.called /\ encB.called

SharedLabels == DistinctLabels(encA.labels) \cap DistinctLabels(encB.labels)

Overlapping ==
    /\ BothEncoded
    /\ SharedLabels # {}
    /\ DistinctLabels(encA.labels) # DistinctLabels(encB.labels)

\* C6 as claimed: for two label collections that share a label but differ in
\* their sets of distinct labels, some shared label gets a different column
\* in the two mappings, and neither call raises.
C6_SharedLabelMoves ==
    Overlapping =>
        /\ encA.ret.status = "ok"
        /\ encB.ret.status = "ok"
        /\ \E l \in SharedLabels :
              ColumnOf(encA.ret.mapping, l) # ColumnOf(encB.ret.mapping, l)

SmallerIn(labels, l) == Cardinality({x \in DistinctLabels(labels) : x < l})

\* C6 as amended: for two such collections neither call raises, the two
\* mappings differ, and a shared label gets a different column in the two
\* mappings exactly when the number of distinct labels smaller than it
\* differs between the collections.
C6_MappingsDiffer ==
    Overlapping =>
        /\ encA.ret.status = "ok"
        /\ encB.ret.status = "ok"
        /\ encA.ret.mapping # encB.ret.mapping
        /\ \A l \in SharedLabels :
              (ColumnOf(encA.ret.mapping, l) # ColumnOf(encB.ret.mapping, l))
                  <=> (SmallerIn(encA.labels, l) # SmallerIn(encB.labels, l))

C6_Witness ==
    /\ Overlapping
    /\ encA.ret.status = "ok"
    /\ encB.ret.status = "ok"
    /\ \E l \in SharedLabels :
          ColumnOf(encA.ret.mapping, l) = ColumnOf(encB.ret.mapping, l)
    /\ \E l \in SharedLabels :
          ColumnOf(encA.ret.mapping, l) # ColumnOf(encB.ret.mapping, l)

\* C7: the mapping is the sorted enumeration of the distinct input labels:
\* its keys are 0..K-1, its values are the distinct labels, pairwise
\* distinct and ascending, and two collections with the same set of distinct
\* labels get the same mapping whatever their order and multiplicity.
C7_SortedMapping ==
    /\ (encA.called /\ encA.ret.status = "ok") =>
          LET mp == encA.ret.mapping
              K == Cardinality(DistinctLabels(encA.labels))
          IN  /\ DOMAIN mp = 0..(K - 1)
              /\ {mp[j] : j \in DOMAIN mp} = DistinctLabels(encA.labels)
              /\ \A j, k \in DOMAIN mp : j # k => mp[j] # mp[k]
              /\ \A j \in 0..(K - 2) : mp[j] < mp[j + 1]
    /\ (BothEncoded /\ encA.ret.status = "ok" /\ encB.ret.status = "ok"
           /\ DistinctLabels(encA.labels) = DistinctLabels(encB.labels))
          => encA.ret.mapping = encB.ret.mapping

C7_Witness ==
    /\ BothEncoded
    /\ encA.labels = <<3, 1, 3>>
    /\ encB.labels = <<1, 3>>
    /\ encA.ret.status = "ok"
    /\ encA.ret.mapping = encB.ret.mapping
    /\ encA.ret.mapping[0] = 1

TooShort ==
    dims.called /\ dims.args.hop_length > 0 /\ DimsTotal < dims.args.n_fft

\* C8 as claimed: calculate_spectrogram_dimensions validates nothing: with
\* hop_length > 0 and sr*sample_length < n_fft it returns normally and the
\* time_frames it returns is negative.
C8_NegativeFrames ==
    TooShort => (dims.ret.status = "ok" /\ dims.ret.time_frames < 0)

\* C8 as amended: with hop_length > 0 and sr*sample_length < n_fft it returns
\* normally and the time_frames it returns is zero or negative.
C8_NoPositiveFrames ==
    TooShort => (dims.ret.status = "ok" /\ dims.ret.time_frames <= 0)

C8_Witness ==
    /\ TooShort
    /\ dims.ret.status = "ok"
    /\ dims.ret.time_frames = 0

\* C9: for waveforms of sr*sample_length samples with sr*sample_length >= n_fft
\* the pair calculate_spectrogram_dimensions returns is the (rows, columns)
\* shape of what extract_stft_spectrogram makes of such a waveform with the
\* same n_fft and hop_length, and its time_frames is the column count of
\* every feature matrix extract_features stacks for such waveforms.
C9_PredictsShape ==
    (/\ dims.called /\ dims.ret.status = "ok"
     /\ DimsTotal >= dims.args.n_fft
     /\ featA.called /\ featA.ret.status = "ok"
     /\ featA.args.n_fft = dims.args.n_fft
     /\ featA.args.hop_length = dims.args.hop_length
     /\ \A k \in 1..Len(featA.args.samples) : featA.args.samples[k].len = DimsTotal) =>
        \A i \in 1..Len(featA.ret.features) :
            /\ featA.ret.features[i].cols = dims.ret.time_frames
            /\ featA.args.feature = "Stft"
                  => featA.ret.features[i].rows = dims.ret.frequency_bins

SameButSwitches ==
    /\ featA.called
    /\ featB.called
    /\ featB.args = [featA.args EXCEPT !.show_logs = featB.args.show_logs,
                                       !.show_plt = featB.args.show_plt]

\* C10: two calls of extract_features that differ only in show_logs and
\* show_plt both fail or both return, return equal arrays, and leave the
\* samples collection as it was.
C10_SwitchesNoEffect ==
    SameButSwitches =>
        /\ featA.ret.status = featB.ret.status
        /\ featA.ret.status = "error" => featA.ret.error = featB.ret.error
        /\ featA.ret.status = "ok" =>
              /\ featA.ret.features = featB.ret.features
              /\ featA.ret.shape = featB.ret.shape
        /\ featA.ret.samples = featA.args.samples
        /\ featB.ret.samples = featB.args.samples

C10_Witness ==
    /\ SameButSwitches
    /\ featA.args.show_logs /\ featA.args.show_plt
    /\ ~featB.args.show_logs /\ ~featB.args.show_plt
    /\ featA.args.feature = "Stft"
    /\ Len(featA.args.samples) = 2
    /\ featA.ret.status = "ok"
    /\ featA.ret.plots = 2
    /\ featB.ret.plots = 0
    /\ Len(featA.ret.logs) = 3
    /\ featB.ret.logs = <<>>
    /\ featA.ret.features = featB.ret.features

\* the log lines of the call that are progress lines
ProgressLines(logs) == SelectSeq(logs, LAMBDA l : l.line = "Extracted")

\* the log lines of the call that are summary lines
SummaryLines(logs) == SelectSeq(logs, LAMBDA l : l.line # "Extracted")

\* C11 as claimed: with show_logs set, a call that returns has logged one
\* progress line each time the number of waveforms processed so far reached a
\* multiple of 50 (a line is logged right after item i, counted from 0, is
\* appended, that is when i + 1 items are done), then the summary lines; with
\* show_logs unset it logs nothing.
C11_LineAtMultiplesOfCount ==
    featA.called =>
        /\ ~featA.args.show_logs => featA.ret.logs = <<>>
        /\ (featA.args.show_logs /\ featA.ret.status = "ok") =>
              LET prog == ProgressLines(featA.ret.logs)
                  N == Len(featA.args.samples)
              IN  /\ Len(prog) = N \div 50
                  /\ \A k \in 1..Len(prog) : (prog[k].i + 1) % 50 = 0
                  /\ featA.ret.logs = prog \o SummaryLines(featA.ret.logs)
                  /\ Len(SummaryLines(featA.ret.logs)) = 2

\* C11 as amended: with show_logs set, a call that returns has logged one
\* progress line right after each waveform whose index, counted from 0, is a
\* multiple of 50 (after the 1st, the 51st, the 101st, ...), each naming that
\* index and the total, then the two summary lines; a call that raises has
\* logged no summary line; with show_logs unset it logs nothing.
C11_LineAtMultiplesOfIndex ==
    featA.called =>
        /\ ~featA.args.show_logs => featA.ret.logs = <<>>
        /\ (featA.args.show_logs /\ featA.ret.status = "error")
              => SummaryLines(featA.ret.logs) = <<>>
        /\ (featA.args.show_logs /\ featA.ret.status = "ok") =>
              LET logs == featA.ret.logs
                  N == Len(featA.args.samples)
                  NP == (N + 49) \div 50
              IN  /\ Len(logs) = NP + 2
                  /\ \A k \in 1..NP :
                        /\ logs[k].line = "Extracted"
                        /\ logs[k].i = 50 * (k - 1)
                        /\ logs[k].i < N
                        /\ logs[k].of = N
                  /\ logs[NP + 1] = [line |-> "Extracted features from", of |-> N]
                  /\ logs[NP + 2].line = "Features shape"
                  /\ logs[NP + 2].shape = featA.ret.shape

C11_Witness ==
    /\ featA.called
    /\ featA.args.show_logs
    /\ featA.ret.status = "ok"
    /\ Len(featA.args.samples) = 101
    /\ Len(featA.ret.logs) = 5
    /\ featA.ret.logs[2].i = 50
    /\ featA.ret.logs[3].i = 100

\* C17: with hop_length > 0, time_frames is at least 1 exactly when
\* sr*sample_length >= n_fft; when sr*sample_length < n_fft it is zero or
\* negative, and exactly zero when n_fft - sr*sample_length <= hop_length.
C17_FramesSign ==
    (dims.called /\ dims.args.hop_length > 0) =>
        /\ dims.ret.status = "ok"
        /\ (dims.ret.time_frames >= 1) <=> (DimsTotal >= dims.args.n_fft)
        /\ DimsTotal < dims.args.n_fft => dims.ret.time_frames <= 0
        /\ (DimsTotal < dims.args.n_fft
               /\ dims.args.n_fft - DimsTotal <= dims.args.hop_length)
              => dims.ret.time_frames = 0

C17_Witness ==
    /\ dims.called
    /\ dims.args.hop_length = 2
    /\ DimsTotal = 1
    /\ dims.args.n_fft = 3
    /\ dims.ret.status = "ok"
    /\ dims.ret.time_frames = 0

Built(builder) ==
    model.called /\ model.builder = builder /\ model.ret.status = "ok"

\* the positions of the layers of one of the given types
LayersOf(layers, types) == {i \in 1..Len(layers) : layers[i].type \in types}

\* C12 as claimed: in the model create_better_base_cnn_model returns, every
\* convolutional layer and every dense layer, the final softmax layer
\* included, carries an L2 kernel regularizer.
C12_AllRegularized ==
    Built("create_better_base_cnn_model") =>
        \A i \in LayersOf(model.ret.layers, {"Conv2D", "Dense"}) :
            model.ret.layers[i].l2 > 0

\* C12 as amended: every convolutional layer and every dense layer except the
\* last layer carries the L2 kernel regularizer l2(0.01); the last layer, the
\* softmax dense layer of class_count units, carries none.
C12_AllButOutputRegularized ==
    Built("create_better_base_cnn_model") =>
        LET L == model.ret.layers
        IN  /\ \A i \in LayersOf(L, {"Conv2D", "Dense"}) : i < Len(L) => L[i].l2 = 1
            /\ L[Len(L)].type = "Dense"
            /\ L[Len(L)].activation = "softmax"
            /\ L[Len(L)].units = model.args.classes
            /\ L[Len(L)].l2 = 0
            /\ Cardinality(LayersOf(L, {"Conv2D"})) = 4
            /\ Cardinality(LayersOf(L, {"Dense"})) = 3

C12_Witness ==
    /\ Built("create_better_base_cnn_model")
    /\ model.args.classes = 3
    /\ model.ret.layers[8].type = "Dense"
    /\ model.ret.layers[8].l2 = 1
    /\ model.ret.layers[16].l2 = 0

\* the values of field f of the layers of one type, in layer order
UnitsOf(layers, type) ==
    LET sel == SelectSeq(layers, LAMBDA l : l.type = type)
    IN  [k \in 1..Len(sel) |-> sel[k].units]

\* C13: create_base_cnn_model returns four convolutional layers of 64, 128,
\* 128, 64 filters in that order, each with leaky-ReLU activation and each
\* immediately followed by a dropout layer, then a flatten, then dense layers
\* of 512 and 256 units each followed by batch normalization and then
\* dropout, then a softmax dense layer of exactly `classes` units, last.
C13_BaseLayout ==
    (model.called /\ model.builder = "create_base_cnn_model") =>
        LET L == model.ret.layers
        IN  /\ model.ret.status = "ok"
            /\ Len(L) = 16
            /\ UnitsOf(L, "Conv2D") = <<64, 128, 128, 64>>
            /\ LayersOf(L, {"Conv2D"}) = {1, 3, 5, 7}
            /\ \A i \in LayersOf(L, {"Conv2D"}) :
                  /\ L[i].activation = "leaky_relu"
                  /\ L[i + 1].type = "Dropout"
            /\ L[9].type = "Flatten"
            /\ LayersOf(L, {"Flatten"}) = {9}
            /\ UnitsOf(L, "Dense") = <<512, 256, model.args.classes>>
            /\ LayersOf(L, {"Dense"}) = {10, 13, 16}
            /\ \A i \in {10, 13} :
                  /\ L[i + 1].type = "BatchNormalization"
                  /\ L[i + 2].type = "Dropout"
            /\ L[16].activation = "softmax"

C13_Witness ==
    /\ Built("create_base_cnn_model")
    /\ model.args.classes = 4
    /\ model.args.channels = 1
    /\ Len(model.ret.layers) = 16
    /\ model.ret.layers[16].units = 4
    /\ model.ret.layers[3].strides = 4

\* C14: in the model create_resnet50_model returns a layer is trainable
\* exactly when its index in model.layers (from 0) is at least 175; with the
\* 175-layer base every base layer is frozen and every layer of the head
\* (pooling, two dense + batch normalization + dropout blocks, softmax
\* output) is trainable.
C14_TrainableFrom175 ==
    Built("create_resnet50_model") =>
        LET L == model.ret.layers
        IN  /\ \A k \in 1..Len(L) : L[k].trainable <=> (k - 1 >= 175)
            /\ model.ret.base_count = 175
            /\ Len(L) = 175 + 8
            /\ \A k \in 1..Len(L) : (L[k].type = "ResNet50") <=> (k <= 175)
            /\ \A k \in 1..Len(L) : L[k].type = "ResNet50" => ~L[k].trainable
            /\ \A k \in 1..Len(L) : L[k].type # "ResNet50" => L[k].trainable
            /\ [k \in 1..8 |-> L[175 + k].type] =
                  <<"GlobalAveragePooling2D", "Dense", "BatchNormalization", "Dropout",
                    "Dense", "BatchNormalization", "Dropout", "Dense">>
            /\ L[Len(L)].activation = "softmax"
            /\ L[Len(L)].units = model.args.classes

C14_Witness ==
    /\ Built("create_resnet50_model")
    /\ model.args.feature_width = 32
    /\ Len(model.ret.layers) = 183
    /\ ~model.ret.layers[175].trainable
    /\ model.ret.layers[176].trainable

\* a layer that applies an activation: one with a built-in activation, or an
\* activation layer
Activates(l) == l.activation # "none"

\* C15 as claimed: in the model create_better_base_cnn_model returns every
\* block is normalize, activate, dropout: every dropout layer directly
\* follows an activation layer that directly follows a batch normalization,
\* and no activation is applied to an output that was not batch-normalized
\* first; in the model create_base_cnn_model returns each batch
\* normalization follows an already activated dense layer.
C15_NormalizeFirstEverywhere ==
    /\ Built("create_better_base_cnn_model") =>
          LET L == model.ret.layers
          IN  /\ \A i \in LayersOf(L, {"Dropout"}) :
                    /\ i > 2
                    /\ L[i - 1].type = "LeakyReLU"
                    /\ L[i - 2].type = "BatchNormalization"
              /\ \A i \in 1..Len(L) :
                    (Activates(L[i]) /\ i < Len(L)) =>
                        (L[i].type = "LeakyReLU" /\ L[i - 1].type = "BatchNormalization")
    /\ Built("create_base_cnn_model") =>
          LET L == model.ret.layers
          IN  \A i \in LayersOf(L, {"BatchNormalization"}) :
                  L[i - 1].type = "Dense" /\ Activates(L[i - 1])

\* C15 as amended: in the model create_better_base_cnn_model returns the two
\* hidden dense blocks are normalize, activate, dropout: each dense layer but
\* the last has no built-in activation and is directly followed by batch
\* normalization, a leaky-ReLU layer and dropout, so no batch normalization
\* follows an activation; the convolutional layers keep a built-in leaky-ReLU
\* activation and are not batch-normalized, and dropout follows each second
\* one; in the model create_base_cnn_model returns each batch normalization
\* follows an already activated dense layer.
C15_NormalizeFirstInDenseBlocks ==
    /\ Built("create_better_base_cnn_model") =>
          LET L == model.ret.layers
          IN  /\ \A i \in LayersOf(L, {"Dense"}) :
                    i < Len(L) =>
                        /\ ~Activates(L[i])
                        /\ L[i + 1].type = "BatchNormalization"
                        /\ L[i + 2].type = "LeakyReLU"
                        /\ L[i + 3].type = "Dropout"
              /\ Cardinality(LayersOf(L, {"BatchNormalization"})) = 2
              /\ \A i \in LayersOf(L, {"BatchNormalization"}) :
                    i > 1 /\ ~Activates(L[i - 1])
              /\ \A i \in LayersOf(L, {"Conv2D"}) :
                    /\ L[i].activation = "leaky_relu"
                    /\ L[i + 1].type \in {"Conv2D", "Dropout"}
              /\ LayersOf(L, {"Conv2D"}) = {1, 2, 4, 5}
              /\ L[3].type = "Dropout" /\ L[6].type = "Dropout"
    /\ Built("create_base_cnn_model") =>
          LET L == model.ret.layers
          IN  /\ Cardinality(LayersOf(L, {"BatchNormalization"})) = 2
              /\ \A i \in LayersOf(L, {"BatchNormalization"}) :
                    L[i - 1].type = "Dense" /\ Activates(L[i - 1])

C15_Witness ==
    /\ Built("create_better_base_cnn_model")
    /\ model.ret.layers[8].type = "Dense"
    /\ model.ret.layers[9].type = "BatchNormalization"
    /\ model.ret.layers[10].type = "LeakyReLU"
    /\ model.ret.layers[11].type = "Dropout"
    /\ model.ret.layers[3].type = "Dropout"
    /\ model.ret.layers[2].type = "Conv2D"

\* the positions in the output of the events of one kind about one thing
EventsAt(out, kind, what) ==
    {i \in 1..Len(out) : out[i].kind = kind /\ out[i].what = what}

\* the metric lines of a call, in order
MetricLines(out) ==
    SelectSeq(out, LAMBDA e : e.kind = "print" /\
                  e.what \in {"confusion_matrix", "classification_report",
                              "kappa", "accuracy"})

\* the events of drawing and saving the loss/accuracy curves
CurveEvents(out) == {i \in 1..Len(out) : out[i].what = "curves"}

\* the confusion matrix, the classification report, Kappa and the accuracy
\* are printed, in that order, before any curve event
MetricsFirst(out) ==
    /\ [k \in 1..Len(MetricLines(out)) |-> MetricLines(out)[k].what] =
          <<"confusion_matrix", "confusion_matrix", "classification_report",
            "kappa", "accuracy">>
    /\ \A i \in EventsAt(out, "print", "accuracy") : \A j \in CurveEvents(out) : i < j

\* the name f"{plot_file_name}-{accuracy * 100:.1f}acc.png" of the call
PlotFile(a) ==
    a.plot_file_name \o "-"
        \o FormatFixed(accuracy_score(a.y_test, a.y_pred)[1] * 100, Len(a.y_test), 1)
        \o "acc.png"

\* C16 as claimed: evaluate_model prints the confusion matrix, the
\* classification report, Cohen's Kappa and the accuracy on every call,
\* before any curve plotting; it builds the loss/accuracy figure and writes
\* the file "{plot_file_name}-{accuracy:.1f}acc.png" if and only if H is not
\* None; with H None no figure file is written and the metrics output is
\* the same.
C16_PlotIffHistory ==
    /\ evalA.called =>
          /\ MetricsFirst(evalA.ret.out)
          /\ (EventsAt(evalA.ret.out, "subplots", "curves") # {}) <=> ~evalA.args.H.none
          /\ evalA.ret.files = IF evalA.args.H.none THEN {} ELSE {PlotFile(evalA.args)}
    /\ evalB.called =>
          /\ evalB.ret.files = {}
          /\ MetricLines(evalB.ret.out) = MetricLines(evalA.ret.out)

====
